---------------------------- MODULE Spec2Model ----------------------------
(***************************************************************************)
(* Location-gated attendance tracker (markit).                             *)
(*                                                                         *)
(* The model follows one card of the realtime store: its current session,  *)
(* access code, settings, roster attendance and daily logs; the admin      *)
(* clients (CardDetail instances) that start, stop and rotate; and the     *)
(* participant devices (WelcomeScreen + firebaseService) that check in and *)
(* out.  Times are milliseconds since the start of the observation, all    *)
(* coordinates are integer micro-degrees, distances are millimetres.       *)
(***************************************************************************)
EXTENDS Integers, Sequences, FiniteSets, TLC

(***************************************************************************)
(* Bounds of the model.                                                    *)
(***************************************************************************)
\* number of sampled clock instants
MaxTick == 4
\* clock instants sampled while the check-in protocol runs
MaxAttendTick == 2
\* records one roster user may accumulate
MaxRecords == 2
\* checkout-setting toggles an admin performs
MaxToggles == 1

(***************************************************************************)
(* Program constants.                                                      *)
(***************************************************************************)
\* const newExpiresAt = Date.now() + 2 * 60 * 1000
CodeTtlMs == 2 * 60 * 1000
\* Math.floor(1000 + Math.random() * 9000)
CodeBase == 1000
CodeSpan == 9000
\* const R = 6371e3, in kilometres here; distances come out in millimetres
EarthRadiusKm == 6371
\* const [maxDistance, setMaxDistance] = useState(100)
DefaultMaxDistance == 100

(***************************************************************************)
(* The clock.  Date.now() is sampled at the instants                       *)
(*   T0, T0+TTL-400, T0+TTL, T0+2*TTL-400, T0+2*TTL, ...                   *)
(* so that a code can be observed 400 ms before it expires and at expiry.  *)
(***************************************************************************)
StartMs == 60000
EarlyMs == 400
Instant(i) == StartMs + ((i - 1) \div 2) * CodeTtlMs
                      + ((i - 1) % 2) * (CodeTtlMs - EarlyMs)
DayMs == 24 * 60 * 60 * 1000
\* `${getFullYear()}-${month}-${date}`: the calendar day of a clock reading
DateOf(t) == t \div DayMs
Dates == {DateOf(Instant(i)) : i \in 1..(MaxTick + 1)}

(***************************************************************************)
(* Identities.                                                             *)
(***************************************************************************)
\* CardDetail instances of the owning admin: a1 and a2 run the CardDetail with
\* the access code (part_001), a3 runs components/CardDetail.tsx
Clients == {"a1", "a2", "a3"}
CodeClients == {"a1", "a2"}
SetClients == {"a3"}
\* user.uid of the signed-in admin
Uid(c) == "admin1"
\* user.email
Email(c) == "admin1@example.org"
CardId == "card1"
\* participant devices; d1 and d2 are signed in as the same roster user
Devices == {"d1", "d2", "d3"}
UserKeys == {"u1", "u2"}
UserOf(d) == IF d = "d3" THEN "u2" ELSE "u1"
UserId(u) == IF u = "u1" THEN "1001" ELSE "1002"
UserName(u) == IF u = "u1" THEN "Ada" ELSE "Bob"
DeviceOs(d) == IF d = "d2" THEN "iOS" ELSE "Android"

(***************************************************************************)
(* Optional values are sequences of length 0 (absent) or 1 (present).      *)
(***************************************************************************)
None == << >>
Some(x) == << x >>
IsSome(o) == Len(o) = 1
Get(o) == o[1]

Loc(lat, lon) == [latitude |-> lat, longitude |-> lon]
HostLoc == Loc(51500000, 0 - 120000)
NearLoc == Loc(51500000, 0 - 120100)
FarLoc  == Loc(51504500, 0 - 120000)

(***************************************************************************)
(* getHaversineDistance in fixed point.  Angles of coordinate differences  *)
(* are nano-radians, cosines of latitudes are scaled by 10^4, the result   *)
(* is millimetres.  Rounding is toward zero on magnitudes, so that, as in  *)
(* IEEE arithmetic, negating a difference does not change its square.      *)
(***************************************************************************)
Abs(x) == IF x < 0 THEN 0 - x ELSE x
Scale4 == 10^4
Nano == 10^9

\* start.latitude * Math.PI / 180, scaled by 10^4
LatRad4(latMicro) ==
    LET m == ((Abs(latMicro) \div 1000) * 17453) \div 100000
    IN  IF latMicro < 0 THEN 0 - m ELSE m

\* Math.cos by its Taylor series up to x^8, argument and result scaled 10^4
Cos4(x) ==
    LET x2 == (x * x) \div Scale4
        x4 == (x2 * x2) \div Scale4
        x6 == (x4 * x2) \div Scale4
        x8 == (x4 * x4) \div Scale4
    IN  Scale4 - (x2 \div 2) + (x4 \div 24) - (x6 \div 720) + (x8 \div 40320)

\* |(end - start) * Math.PI / 180 / 2| in nano-radians
HalfDeltaNano_floor(dMicro) == (dMicro * 8727) \div 1000
HalfDeltaNano(dMicro) == (Abs(dMicro) * 8727) \div 1000

\* Math.sin of a small non-negative angle: x - x^3/6, in nano-radians
SinNano(x) == x - ((((x * x) \div Nano) * x) \div Nano) \div 6

RECURSIVE SqrtSearch(_, _, _)
SqrtSearch(n, lo, hi) ==
    IF lo >= hi THEN lo
    ELSE LET mid == (lo + hi + 1) \div 2
         IN  IF mid * mid <= n THEN SqrtSearch(n, mid, hi)
             ELSE SqrtSearch(n, lo, mid - 1)
\* Math.sqrt, rounded down
Sqrt(n) == SqrtSearch(n, 0, 46340)

\* Math.atan2(y, x) for 0 <= y << x = 1: y - y^3/3, in nano-radians
Atan2Nano(y) == y - ((((y * y) \div Nano) * y) \div Nano) \div 3

getHaversineDistance(start, end) ==
    LET cosLat1 == Cos4(LatRad4(start.latitude))
        cosLat2 == Cos4(LatRad4(end.latitude))
        sinLat  == SinNano(HalfDeltaNano(end.latitude - start.latitude))
        sinLon  == SinNano(HalfDeltaNano(end.longitude - start.longitude))
        cosProd == (cosLat1 * cosLat2) \div Scale4
        \* a, in units of 10^-18
        a       == sinLat * sinLat + ((sinLon * cosProd) \div Scale4) * sinLon
        \* c = 2 * atan2(sqrt(a), sqrt(1 - a)); sqrt(1 - a) is 1 at this scale
        c       == 2 * Atan2Nano(Sqrt(a))
    IN  (c * EarthRadiusKm) \div 1000

(***************************************************************************)
(* Access codes.  Math.random() yields k / RandDen for a sampled k.        *)
(***************************************************************************)
RandDen == 10^4
RandomSamples == {0, RandDen - 1}

RECURSIVE toString(_)
\* Number.prototype.toString: the decimal digits, most significant first
toString(n) == IF n < 10 THEN << n >> ELSE Append(toString(n \div 10), n % 10)

\* Math.floor(1000 + Math.random() * 9000).toString()
newCode(k) == toString((CodeBase * RandDen + k * CodeSpan) \div RandDen)

\* Math.round(x / 1000): halves round up
RoundSeconds(x) == (x + 500) \div 1000


(***************************************************************************)
(* State.                                                                  *)
(***************************************************************************)
VARIABLES
    \* the store, under cards/{cardId}
    current,        \* /current: the session node
    code,           \* /code: digits, or None
    codeExpiresAt,  \* /codeExpiresAt: ms, 0 when absent
    settings,       \* /settings
    attendance,     \* /users/{userKey}/attendance, in push-key order
    logs,           \* /logs/{date}, in push-key order
    \* the clock
    tick,
    \* clients
    geo,            \* useGeolocation state of every client and device
    aview,          \* CardDetail: card and currentSession as last delivered
    dview,          \* participant device: session, user.attendance, checkoutEnabled
    pending,        \* writeAttendanceRecord between its two requests
    toggles,        \* setting toggles performed
    locSince,       \* CardDetail: when the location interval was last set or fired
    locPending,     \* CardDetail: a getCurrentPosition call not yet answered
    \* the admin's panels
    usersData,      \* cards/{cardId}/users: the roster, without the attendance mappings
    logsData,       \* cards/{cardId}/logs as the panels read it: a day's records in key order
    matrixData,     \* AttendanceMatrix: the matrix shown, if any
    selectedDate,   \* CardDetail: the day whose log is shown
    dailyLog,       \* CardDetail: the records shown for that day
    \* the admin's dashboard
    cardData,       \* cards/{key}: cardName, hostId, createdAt of every card key
    adminCards,     \* admins/{uid}/cards: the keys the admin's index lists
    pushed,         \* how many card keys push() has generated
    cards,          \* AdminDashboard: the list of cards shown
    batches,        \* AdminDashboard: the fetch batches not yet finished
    indexSeen,      \* AdminDashboard: the last snapshot of the index delivered
    \* CardDetail: the page of the daily log shown
    currentPage,
    \* getHaversineDistance: two points and the distances computed between them
    endpoints,
    measured,
    lastOp          \* the operation that made the last step, and its outcome

store == <<current, code, codeExpiresAt, settings, attendance, logs>>
vars == <<current, code, codeExpiresAt, settings, attendance, logs, tick,
          geo, aview, dview, pending, toggles, locSince, locPending,
          usersData, logsData, matrixData, selectedDate, dailyLog,
          cardData, adminCards, pushed, cards, batches, indexSeen,
          currentPage, endpoints, measured, lastOp>>

panels == <<usersData, logsData, matrixData, selectedDate, dailyLog>>
dashboard == <<cardData, adminCards, pushed>>
measures == <<endpoints, measured>>
listing == <<cards, batches, indexSeen>>

now == Instant(tick)

\* a node of the store that does not exist
NoSession == [active |-> FALSE, cardId |-> "", createdAt |-> 0, hostId |-> "",
              hostName |-> "", location |-> None, maxDistance |-> 0]
NoSettings == [signOutEnabled |-> FALSE, checkoutEnabled |-> FALSE]

\* snapshot.val() of cards/{cardId}, as far as CardDetail reads it
CardSnapshot == [current |-> current, codeExpiresAt |-> codeExpiresAt,
                 settings |-> settings, users |-> attendance, logs |-> logs]

Op(name, who, outcome) == [op |-> name, who |-> who, outcome |-> outcome]

(***************************************************************************)
(* CardDetail: the periodic refresh of the host's location.  The effect    *)
(* depends on currentSession, a new object with every card snapshot, so    *)
(* each change of the client's view clears the interval and, while the     *)
(* view shows an active session hosted by this user, sets a new one.       *)
(***************************************************************************)
LocationUpdateMs == 120000

\* if (currentSession?.active && user.uid === currentSession.hostId)
isHosting(c, view) ==
    /\ c \in CodeClients
    /\ view.current.active
    /\ Uid(c) = view.current.hostId

\* the time each client's interval was set or last fired (0: no interval),
\* given the views the step leaves
locationEffect ==
    [c \in Clients |->
       IF isHosting(c, aview'[c])
       THEN IF aview'[c] # aview[c] THEN now ELSE locSince[c]
       ELSE 0]

(***************************************************************************)
(* useGeolocation: one getCurrentPosition request per mounted component.   *)
(***************************************************************************)
GeoLoading == [loading |-> TRUE, coordinates |-> None, error |-> FALSE]
\* where each client may be found: the host at the venue, d1 at the host's own
\* spot or far away, d2 a few metres off, d3 at any of the three
PositionsOf(x) ==
    CASE x \in Clients -> {HostLoc}
      [] x = "d1" -> {HostLoc, FarLoc}
      [] x = "d2" -> {NearLoc}
      [] OTHER -> {HostLoc, NearLoc, FarLoc}

onSuccess(x) ==
    /\ geo[x].loading
    /\ \E p \in PositionsOf(x) :
         geo' = [geo EXCEPT ![x] = [loading |-> FALSE, coordinates |-> Some(p),
                                    error |-> FALSE]]
    /\ lastOp' = Op("onSuccess", x, "ok")
    /\ UNCHANGED <<store, tick, aview, dview, pending, toggles, locPending, panels, dashboard, currentPage, measures, listing>>
    /\ locSince' = locationEffect

onError(x) ==
    /\ geo[x].loading
    /\ geo' = [geo EXCEPT ![x] = [loading |-> FALSE, coordinates |-> None,
                                  error |-> TRUE]]
    /\ lastOp' = Op("onError", x, "ok")
    /\ UNCHANGED <<store, tick, aview, dview, pending, toggles, locPending, panels, dashboard, currentPage, measures, listing>>
    /\ locSince' = locationEffect

(***************************************************************************)
(* CardDetail: the card subscription.                                      *)
(***************************************************************************)
\* onValue(cardRef, ...): the latest snapshot reaches client c
onValue(c) ==
    /\ aview[c] # CardSnapshot
    /\ aview' = [aview EXCEPT ![c] = CardSnapshot]
    /\ lastOp' = Op("onValue", c, "ok")
    /\ UNCHANGED <<store, tick, geo, dview, pending, toggles, locPending, panels, dashboard, currentPage, measures, listing>>
    /\ locSince' = locationEffect

\* {currentSession && currentSession.active ? ... : ...}
SessionLive(c) == aview[c].current.active

\* <input type="number" value={maxDistance}>: the default, or 0 typed in
MaxDistanceInputs == {DefaultMaxDistance, 0}

newSession(c, md) ==
    [active |-> TRUE, cardId |-> CardId, createdAt |-> now, hostId |-> Uid(c),
     hostName |-> Email(c), location |-> geo[c].coordinates, maxDistance |-> md]

(***************************************************************************)
(* handleStartSession of the CardDetail with the access code: one          *)
(* multi-path update of current, code and codeExpiresAt.                   *)
(***************************************************************************)
\* handleStartSession without the `if (!coordinates) return`
handleStartSession_noGuard(c, k, md) ==
    /\ c \in CodeClients
    /\ ~SessionLive(c)
    /\ ~geo[c].loading
    /\ current' = newSession(c, md)
    /\ code' = newCode(k)
    /\ codeExpiresAt' = now + CodeTtlMs
    /\ aview' = [aview EXCEPT ![c].current = current',
                              ![c].codeExpiresAt = codeExpiresAt']
    /\ lastOp' = Op("handleStartSession", c, "started")
    /\ UNCHANGED <<settings, attendance, logs, tick, geo, dview, pending, toggles, locPending, panels, dashboard, currentPage, measures, listing>>
    /\ locSince' = locationEffect

\* k is the draw of Math.random(), md the maxDistance typed into the form
handleStartSession(c, k, md) ==
    /\ c \in CodeClients
    /\ ~SessionLive(c)
    /\ ~geo[c].loading
    /\ IF ~IsSome(geo[c].coordinates)
       THEN /\ lastOp' = Op("handleStartSession", c, "LocationUnavailable")
            /\ UNCHANGED <<store, aview>>
       ELSE /\ current' = newSession(c, md)
            /\ code' = newCode(k)
            /\ codeExpiresAt' = now + CodeTtlMs
            /\ aview' = [aview EXCEPT ![c].current = current',
                                      ![c].codeExpiresAt = codeExpiresAt']
            /\ lastOp' = Op("handleStartSession", c, "started")
            /\ UNCHANGED <<settings, attendance, logs>>
    /\ UNCHANGED <<tick, geo, dview, pending, toggles, locPending, panels, dashboard, currentPage, measures, listing>>
    /\ locSince' = locationEffect

(***************************************************************************)
(* handleStopSession of the CardDetail with the access code.               *)
(***************************************************************************)
\* handleStopSession leaving code and codeExpiresAt behind
handleStopSession_currentOnly(c) ==
    /\ c \in CodeClients
    /\ SessionLive(c)
    /\ current' = NoSession
    /\ aview' = [aview EXCEPT ![c].current = NoSession]
    /\ lastOp' = Op("handleStopSession", c, "stopped")
    /\ UNCHANGED <<code, codeExpiresAt, settings, attendance, logs, tick, geo,
                   dview, pending, toggles, locPending, panels, dashboard, currentPage, measures, listing>>
    /\ locSince' = locationEffect

handleStopSession(c) ==
    /\ c \in CodeClients
    /\ SessionLive(c)
    /\ current' = NoSession
    /\ code' = None
    /\ codeExpiresAt' = 0
    /\ aview' = [aview EXCEPT ![c].current = NoSession, ![c].codeExpiresAt = 0]
    /\ lastOp' = Op("handleStopSession", c,
                    IF current = NoSession /\ code = None /\ codeExpiresAt = 0
                    THEN "wasInactive" ELSE "stopped")
    /\ UNCHANGED <<settings, attendance, logs, tick, geo, dview, pending, toggles, locPending, panels, dashboard, currentPage, measures, listing>>
    /\ locSince' = locationEffect

(***************************************************************************)
(* components/CardDetail.tsx: set(sessionRef, newSession) and              *)
(* remove(sessionRef) touch cards/{cardId}/current alone.                  *)
(***************************************************************************)
handleStartSessionSet(c, md) ==
    /\ c \in SetClients
    /\ ~SessionLive(c)
    /\ ~geo[c].loading
    /\ IF ~IsSome(geo[c].coordinates)
       THEN /\ lastOp' = Op("handleStartSessionSet", c, "LocationUnavailable")
            /\ UNCHANGED <<store, aview>>
       ELSE /\ current' = newSession(c, md)
            /\ aview' = [aview EXCEPT ![c].current = current']
            /\ lastOp' = Op("handleStartSessionSet", c, "started")
            /\ UNCHANGED <<code, codeExpiresAt, settings, attendance, logs>>
    /\ UNCHANGED <<tick, geo, dview, pending, toggles, locPending, panels, dashboard, currentPage, measures, listing>>
    /\ locSince' = locationEffect

handleStopSessionRemove(c) ==
    /\ c \in SetClients
    /\ SessionLive(c)
    /\ current' = NoSession
    /\ aview' = [aview EXCEPT ![c].current = NoSession]
    /\ lastOp' = Op("handleStopSessionRemove", c, "stopped")
    /\ UNCHANGED <<code, codeExpiresAt, settings, attendance, logs, tick, geo,
                   dview, pending, toggles, locPending, panels, dashboard, currentPage, measures, listing>>
    /\ locSince' = locationEffect

(***************************************************************************)
(* The code-rotation effect: a 1 s interval over the card and session of   *)
(* the render that created it.                                             *)
(***************************************************************************)
timeLeft(c) == RoundSeconds(aview[c].codeExpiresAt - now)

codeRotationInterval_noEcho(c, k) ==
    /\ c \in CodeClients
    /\ aview[c].codeExpiresAt # 0
    /\ aview[c].current.active
    /\ timeLeft(c) <= 0
    /\ IF Uid(c) = aview[c].current.hostId
       THEN /\ code' = newCode(k)
            /\ codeExpiresAt' = now + CodeTtlMs
            /\ aview' = aview
            /\ lastOp' = Op("codeRotationInterval", c, "regenerated")
       ELSE /\ lastOp' = Op("codeRotationInterval", c, "notHost")
            /\ UNCHANGED <<code, codeExpiresAt, aview>>
    /\ UNCHANGED <<current, settings, attendance, logs, tick, geo, dview,
                   pending, toggles, locPending, panels, dashboard, currentPage, measures, listing>>
    /\ locSince' = locationEffect

codeRotationInterval(c, k) ==
    /\ c \in CodeClients
    /\ aview[c].codeExpiresAt # 0
    /\ aview[c].current.active
    /\ timeLeft(c) <= 0
    /\ IF Uid(c) = aview[c].current.hostId
       THEN /\ code' = newCode(k)
            /\ codeExpiresAt' = now + CodeTtlMs
            /\ aview' = [aview EXCEPT ![c].codeExpiresAt = codeExpiresAt']
            /\ lastOp' = Op("codeRotationInterval", c, "regenerated")
       ELSE /\ lastOp' = Op("codeRotationInterval", c, "notHost")
            /\ UNCHANGED <<code, codeExpiresAt, aview>>
    /\ UNCHANGED <<current, settings, attendance, logs, tick, geo, dview,
                   pending, toggles, locPending, panels, dashboard, currentPage, measures, listing>>
    /\ locSince' = locationEffect

\* Date.now() moves on to the next sampled instant
AdvanceClock ==
    /\ tick < MaxTick
    /\ tick' = tick + 1
    /\ lastOp' = Op("AdvanceClock", "clock", "ok")
    /\ UNCHANGED <<store, geo, aview, dview, pending, toggles, locPending, panels, dashboard, currentPage, measures, listing>>
    /\ locSince' = locationEffect

(***************************************************************************)
(* The location interval and the two callbacks of getCurrentPosition.      *)
(* Clearing the interval does not withdraw a position request already      *)
(* made: its callbacks run whenever the browser answers.                   *)
(***************************************************************************)
\* where the host may be when the browser answers
HostPositions == {HostLoc, NearLoc}

\* setInterval(() => navigator.geolocation.getCurrentPosition(...), 120000)
locationUpdateInterval(c) ==
    /\ locSince[c] # 0
    /\ now - locSince[c] >= LocationUpdateMs
    /\ locPending[c] = None
    /\ locPending' = [locPending EXCEPT ![c] = Some(aview[c].current.createdAt)]
    /\ locSince' = [locSince EXCEPT ![c] = locSince[c] + LocationUpdateMs]
    /\ lastOp' = Op("locationUpdateInterval", c, "requested")
    /\ UNCHANGED <<store, tick, geo, aview, dview, pending, toggles, panels, dashboard, currentPage, measures, listing>>

\* (position) => update(ref(db, `cards/${cardId}/current`), {location})
locationUpdateSuccess(c, p) ==
    /\ locPending[c] # None
    /\ current' = [current EXCEPT !.location = Some(p)]
    /\ aview' = [aview EXCEPT ![c].current.location = Some(p)]
    /\ locPending' = [locPending EXCEPT ![c] = None]
    /\ locSince' = locationEffect
    /\ lastOp' = Op("locationUpdateSuccess", c, "written")
    /\ UNCHANGED <<code, codeExpiresAt, settings, attendance, logs, tick, geo,
                   dview, pending, toggles, panels, dashboard, currentPage, measures, listing>>

\* (error) => console.error(...)
locationUpdateError(c) ==
    /\ locPending[c] # None
    /\ locPending' = [locPending EXCEPT ![c] = None]
    /\ lastOp' = Op("locationUpdateError", c, "logged")
    /\ UNCHANGED <<store, tick, geo, aview, dview, pending, toggles, locSince, panels, dashboard, currentPage, measures, listing>>

(***************************************************************************)
(* The admin's panels read the roster and the logs.  Strings are ordered   *)
(* as the sequences of their UTF-16 code units, which is how sort() orders *)
(* date keys and how localeCompare orders names of one case and alphabet.  *)
(***************************************************************************)
Names == {"Ada", "Al", "Bob"}
\* date keys in the order a snapshot happens to enumerate them
QueryDates == <<"2024-05-10", "2024-05-09">>
Today == "2024-05-10"
RegisteredAt == "2024-05-01T08:00:00.000Z"

Chars(s) ==
    CASE s = "Ada" -> <<65, 100, 97>>
      [] s = "Al" -> <<65, 108>>
      [] s = "Bob" -> <<66, 111, 98>>
      [] s = "2024-05-09" -> <<50, 48, 50, 52, 45, 48, 53, 45, 48, 57>>
      [] s = "2024-05-10" -> <<50, 48, 50, 52, 45, 48, 53, 45, 49, 48>>

RECURSIVE compareUnits(_, _)
compareUnits(a, b) ==
    IF a = << >> \/ b = << >>
    THEN (IF a = b THEN 0 ELSE IF a = << >> THEN 0 - 1 ELSE 1)
    ELSE IF Head(a) # Head(b)
         THEN (IF Head(a) < Head(b) THEN 0 - 1 ELSE 1)
         ELSE compareUnits(Tail(a), Tail(b))

\* a.localeCompare(b)
localeCompare(a, b) == compareUnits(Chars(a), Chars(b))

\* Array.prototype.sort(compareFn), with compared[i][j] what compareFn
\* answers for the i-th and j-th element: stable; an element goes behind
\* those that compare before it and those that compare equal and came
\* before it
sort(s, compared) ==
    LET rank(i) == 1 + Cardinality({j \in 1..Len(s) \ {i} :
                         \/ compared[j][i] < 0
                         \/ compared[j][i] = 0 /\ j < i})
    IN  [k \in 1..Len(s) |-> s[CHOOSE i \in 1..Len(s) : rank(i) = k]]

\* Object.keys of a snapshot value, in the order `order' enumerates them
ObjectKeys(obj, order) == SelectSeq(order, LAMBDA k : k \in DOMAIN obj)
ObjectValues(obj, order) ==
    LET keys == ObjectKeys(obj, order) IN [i \in 1..Len(keys) |-> obj[keys[i]]]
UserKeyOrder == <<"u1", "u2">>

\* a roster entry as stored: a field that is absent is not in the domain
User(id, name) ==
    [f \in {"id", "name", "timestamp"} |->
       CASE f = "id" -> id [] f = "name" -> name [] f = "timestamp" -> RegisteredAt]

\* log records as the panels read them
LogStamp(t) == [timestamp |-> t]
LogRecord(u, in, out) == [userId |-> UserId(u), checkin |-> in, checkout |-> out]
LogRecords ==
    {LogRecord(u, None, None) : u \in UserKeys}
    \cup {LogRecord(u, Some(LogStamp(Instant(1))), None) : u \in UserKeys}
    \cup {LogRecord(u, Some(LogStamp(Instant(2))), Some(LogStamp(Instant(3)))) : u \in UserKeys}

(***************************************************************************)
(* AttendanceMatrix: fetchData.                                            *)
(***************************************************************************)
\* log && log.userId && log.checkin && log.checkin.timestamp
validLog_anyRecord(log) == log.userId # ""
validLog(log) ==
    /\ log.userId # ""
    /\ IsSome(log.checkin)
    /\ Get(log.checkin).timestamp # 0

attendanceMatrix(users, logData) ==
    LET listed == ObjectValues(users, UserKeyOrder)
        mapped == [i \in 1..Len(listed) |->
                     [id |-> listed[i]["id"], name |-> listed[i]["name"]]]
        usersList == sort(mapped,
                          [i \in 1..Len(mapped) |-> [j \in 1..Len(mapped) |->
                             localeCompare(mapped[i].name, mapped[j].name)]])
        keys == ObjectKeys(logData, QueryDates)
        allDates == sort(keys,
                         [i \in 1..Len(keys) |-> [j \in 1..Len(keys) |->
                            compareUnits(Chars(keys[i]), Chars(keys[j]))]])
        presentUserIds(date) ==
            {logData[date][i].userId :
               i \in {j \in 1..Len(logData[date]) : validLog(logData[date][j])}}
    IN  [users |-> usersList,
         dates |-> allDates,
         records |-> [id \in {usersList[i].id : i \in 1..Len(usersList)} |->
                        [date \in DOMAIN logData |-> id \in presentUserIds(date)]]]

fetchData ==
    /\ IF DOMAIN usersData = {}
       THEN /\ lastOp' = Op("fetchData", "admin", "NoUsers")
            /\ UNCHANGED matrixData
       ELSE /\ matrixData' = Some(attendanceMatrix(usersData, logsData))
            /\ lastOp' = Op("fetchData", "admin", "ok")
    /\ UNCHANGED <<store, tick, geo, aview, dview, pending, toggles, locSince,
                   locPending, usersData, logsData, selectedDate, dailyLog, dashboard, currentPage, measures, listing>>

(***************************************************************************)
(* CardDetail: the subscription to the log of the selected day.            *)
(***************************************************************************)
\* new Date(x).getTime(): NaN, here None, when x is undefined
getTime(x) == IF x = None THEN None ELSE x
\* r.timestamp, undefined when the record has no such field
timestampOf(r) == IF "timestamp" \in DOMAIN r THEN Some(r.timestamp) ELSE None
\* a difference that is NaN orders nothing: sort takes it as 0
minus(x, y) == IF x = None \/ y = None THEN 0 ELSE Get(x) - Get(y)

\* (a, b) => new Date(b.checkin.timestamp).getTime() - new Date(a.checkin.timestamp).getTime()
byCheckinDescending(a, b) ==
    minus(getTime(Some(Get(b.checkin).timestamp)), getTime(Some(Get(a.checkin).timestamp)))
\* (a, b) => new Date(b.timestamp).getTime() - new Date(a.timestamp).getTime()
byTimestampDescending(a, b) ==
    minus(getTime(timestampOf(b)), getTime(timestampOf(a)))

\* data ? Object.values(data) : []
recordsOf(date) == IF date \in DOMAIN logsData THEN logsData[date] ELSE << >>

\* the snapshot of logs/{selectedDate} reaches client c, which has chosen date
onValueLog(c, date) ==
    /\ selectedDate' = [selectedDate EXCEPT ![c] = date]
    \* setCurrentPage(1) when the effect runs again, that is when the date changes
    /\ currentPage' = [currentPage EXCEPT ![c] = IF date # selectedDate[c] THEN 1 ELSE @]
    /\ LET records == recordsOf(date)
           n == Len(records)
       IN  IF c \in SetClients
           THEN /\ dailyLog' = [dailyLog EXCEPT ![c] =
                    sort(records, [i \in 1..n |-> [j \in 1..n |->
                           byTimestampDescending(records[i], records[j])]])]
                /\ lastOp' = Op("onValueLog", c, "ok")
           ELSE IF Len(records) >= 2 /\ \E i \in 1..Len(records) : records[i].checkin = None
                THEN \* b.checkin is undefined: the comparison throws
                     /\ UNCHANGED dailyLog
                     /\ lastOp' = Op("onValueLog", c, "TypeError")
                ELSE /\ dailyLog' = [dailyLog EXCEPT ![c] =
                         sort(records, [i \in 1..n |-> [j \in 1..n |->
                                byCheckinDescending(records[i], records[j])]])]
                     /\ lastOp' = Op("onValueLog", c, "ok")
    /\ UNCHANGED <<store, tick, geo, aview, dview, pending, toggles, locSince,
                   locPending, usersData, logsData, matrixData, dashboard, measures, listing>>

(***************************************************************************)
(* CardDetail: the daily log in pages of ITEMS_PER_PAGE records.           *)
(***************************************************************************)
ITEMS_PER_PAGE == 10

\* Array.prototype.slice(start, end) for start, end >= 0: the elements at the
\* 0-based positions start .. end - 1 that exist
slice(s, start, end) ==
    LET last == IF end < Len(s) THEN end ELSE Len(s)
    IN  IF start >= last THEN << >> ELSE [i \in 1..(last - start) |-> s[start + i]]

\* dailyLog.slice((currentPage - 1) * ITEMS_PER_PAGE, currentPage * ITEMS_PER_PAGE)
pageOf(log, page) == slice(log, (page - 1) * ITEMS_PER_PAGE, page * ITEMS_PER_PAGE)
paginatedLog(c) == pageOf(dailyLog[c], currentPage[c])

\* Math.ceil(dailyLog.length / ITEMS_PER_PAGE)
pagesOf(log) == (Len(log) + ITEMS_PER_PAGE - 1) \div ITEMS_PER_PAGE
totalPages(c) == pagesOf(dailyLog[c])

\* Previous: setCurrentPage(p => Math.max(1, p - 1)); the controls are
\* rendered when totalPages > 1 and the button is disabled on page 1
handlePrevious(c) ==
    /\ totalPages(c) > 1
    /\ currentPage[c] # 1
    /\ currentPage' = [currentPage EXCEPT
                         ![c] = IF @ - 1 > 1 THEN @ - 1 ELSE 1]
    /\ lastOp' = Op("handlePrevious", c, "ok")
    /\ UNCHANGED <<store, tick, geo, aview, dview, pending, toggles, locSince,
                   locPending, panels, dashboard, measures, listing>>

\* Next with neither the disabled attribute nor Math.min
handleNext_unclamped(c) ==
    /\ totalPages(c) > 1
    /\ currentPage' = [currentPage EXCEPT ![c] = @ + 1]
    /\ lastOp' = Op("handleNext", c, "ok")
    /\ UNCHANGED <<store, tick, geo, aview, dview, pending, toggles, locSince,
                   locPending, panels, dashboard, measures, listing>>
\* Next: setCurrentPage(p => Math.min(totalPages, p + 1)), disabled on the
\* last page
handleNext(c) ==
    /\ totalPages(c) > 1
    /\ currentPage[c] # totalPages(c)
    /\ currentPage' = [currentPage EXCEPT
                         ![c] = IF totalPages(c) < @ + 1 THEN totalPages(c) ELSE @ + 1]
    /\ lastOp' = Op("handleNext", c, "ok")
    /\ UNCHANGED <<store, tick, geo, aview, dview, pending, toggles, locSince,
                   locPending, panels, dashboard, measures, listing>>

(***************************************************************************)
(* UserManagement: the admin edits a roster entry or clears its session    *)
(* token.  Both go through updateUser, a PATCH of users/{userKey}.         *)
(***************************************************************************)
\* what the admin may have typed into the two inputs of the edited row
EditedNames == {"Al", " Bob ", " "}
EditedIds == {"2001", " "}
\* String.prototype.trim
trim(str) == CASE str = " Bob " -> "Bob" [] str = " " -> "" [] OTHER -> str

\* the sign-in token a device has left in the user's entry
SessionToken(u) == IF u = "u1" THEN "token-d1" ELSE "token-d3"

\* PATCH with a JSON body: the fields of the body replace the stored ones,
\* the others stay, and a field whose value is null is removed
patch_keepNull(obj, body) ==
    [f \in DOMAIN obj \cup DOMAIN body |->
       IF f \in DOMAIN body
       THEN (IF body[f] = None THEN "" ELSE Get(body[f]))
       ELSE obj[f]]
patch(obj, body) ==
    LET nulls == {f \in DOMAIN body : body[f] = None}
    IN  [f \in (DOMAIN obj \cup DOMAIN body) \ nulls |->
           IF f \in DOMAIN body THEN Get(body[f]) ELSE obj[f]]

\* updateUser as a PUT: the body replaces the whole users/{userKey} node, the
\* attendance under it included
updateUser_put(op, userKey, userData, ok) ==
    /\ IF ok
       THEN /\ usersData' = [usersData EXCEPT ![userKey] = patch(@, userData)]
            /\ attendance' = [attendance EXCEPT ![userKey] = << >>]
            /\ lastOp' = Op(op, userKey, "ok")
       ELSE /\ UNCHANGED <<usersData, attendance>>
            /\ lastOp' = Op(op, userKey, "alert")
    /\ UNCHANGED <<current, code, codeExpiresAt, settings, logs, tick, geo, aview,
                   dview, pending, toggles, locSince, locPending, logsData,
                   matrixData, selectedDate, dailyLog, dashboard, currentPage, measures, listing>>

\* updateUser(cardId, userKey, userData): the request is answered ok or not
updateUser(op, userKey, userData, ok) ==
    /\ IF ok
       THEN /\ usersData' = [usersData EXCEPT ![userKey] = patch(@, userData)]
            /\ lastOp' = Op(op, userKey, "ok")
       ELSE /\ UNCHANGED usersData
            /\ lastOp' = Op(op, userKey, "alert")
    /\ UNCHANGED <<store, tick, geo, aview, dview, pending, toggles, locSince,
                   locPending, logsData, matrixData, selectedDate, dailyLog, dashboard, currentPage, measures, listing>>

\* handleSave(userKey): updateUser(cardId, userKey, {name, id}), both trimmed
handleSave(userKey, editedName, editedId, ok) ==
    /\ userKey \in DOMAIN usersData
    /\ trim(editedName) # ""
    /\ trim(editedId) # ""
    /\ updateUser("handleSave", userKey,
                  [f \in {"name", "id"} |->
                     IF f = "name" THEN Some(trim(editedName)) ELSE Some(trim(editedId))],
                  ok)

\* handleClearSession(userKey), its button enabled while the entry shows a
\* sessionId and the admin having confirmed: updateUser(.., {sessionId: null})
handleClearSession(userKey, ok) ==
    /\ userKey \in DOMAIN usersData
    /\ "sessionId" \in DOMAIN usersData[userKey]
    /\ updateUser("handleClearSession", userKey, [f \in {"sessionId"} |-> None], ok)

(***************************************************************************)
(* AdminDashboard: the admin creates and deletes cards.  Each is one       *)
(* multi-path update of cards/{key} and admins/{uid}/cards/{key}.          *)
(***************************************************************************)
MaxCards == 2
\* the keys push(ref(db, 'cards')) generates, in order; none is generated twice
CardKey(n) == CASE n = 1 -> "card1" [] n = 2 -> "card2" [] OTHER -> "card3"
CardKeys == {CardKey(n) : n \in 1..(MaxCards + 1)}
NewCardNames == {"Physics", " "}

newCardData(c, newCardName) ==
    [cardName |-> newCardName, hostId |-> Uid(c), createdAt |-> now]

handleCreateCard(c, newCardName) ==
    /\ pushed < MaxCards
    /\ trim(newCardName) # ""
    /\ LET newCardKey == CardKey(pushed + 1)
       IN  /\ cardData' = [cardData EXCEPT ![newCardKey] = Some(newCardData(c, newCardName))]
           /\ adminCards' = adminCards \cup {newCardKey}
    /\ pushed' = pushed + 1
    /\ lastOp' = Op("handleCreateCard", c, "ok")
    /\ UNCHANGED <<store, tick, geo, aview, dview, pending, toggles, locSince,
                   locPending, panels, currentPage, measures, listing>>

\* updates[`/cards/${cardId}`] = null removes everything under the card
handleDeleteCard_metaOnly(c, cardId) ==
    /\ cardId \in adminCards
    /\ cardData' = [cardData EXCEPT ![cardId] = None]
    /\ adminCards' = adminCards \ {cardId}
    /\ lastOp' = Op("handleDeleteCard", c, "ok")
    /\ UNCHANGED <<store, tick, geo, aview, dview, pending, toggles, locSince,
                   locPending, panels, pushed, currentPage, measures, listing>>
handleDeleteCard(c, cardId) ==
    /\ cardId \in adminCards
    /\ cardData' = [cardData EXCEPT ![cardId] = None]
    /\ adminCards' = adminCards \ {cardId}
    /\ IF cardId = CardId
       THEN /\ current' = NoSession
            /\ code' = None
            /\ codeExpiresAt' = 0
            /\ settings' = NoSettings
            /\ attendance' = [u \in UserKeys |-> << >>]
            /\ logs' = [d \in Dates |-> << >>]
            /\ usersData' = << >>
            /\ logsData' = << >>
       ELSE UNCHANGED <<store, usersData, logsData>>
    /\ lastOp' = Op("handleDeleteCard", c, "ok")
    /\ UNCHANGED <<tick, geo, aview, dview, pending, toggles, locSince,
                   locPending, matrixData, selectedDate, dailyLog, pushed,
                   currentPage, measures, listing>>

(***************************************************************************)
(* AdminDashboard: the list of cards.  Every snapshot of the admin's index *)
(* starts a batch of get(cards/{id}) requests, one per listed key; when    *)
(* the last of a batch is answered, the batch sets the list shown.         *)
(***************************************************************************)
\* card keys in the order Object.keys enumerates them
CardKeyOrder == <<"card1", "card2", "card3">>

\* results.filter(c => c !== null), each result being { id, ...val() }
listOf(batch) ==
    LET keys == SelectSeq(CardKeyOrder,
                          LAMBDA k : k \in batch.ids /\ batch.results[k] # None)
    IN  [i \in 1..Len(keys) |-> [id |-> keys[i], data |-> Get(batch.results[keys[i]])]]

\* onValue(adminCardsRef, async (snapshot) => ...), up to the await: an empty
\* index empties the list at once, any other starts its requests
onValueAdminCards ==
    /\ indexSeen.no = 0 \/ indexSeen.ids # adminCards
    /\ indexSeen' = [no |-> indexSeen.no + 1, ids |-> adminCards]
    /\ IF adminCards = {}
       THEN /\ cards' = << >>
            /\ UNCHANGED batches
            /\ lastOp' = Op("onValueAdminCards", "empty", "listed")
       ELSE /\ batches' = batches \cup
                 {[no |-> indexSeen.no + 1, ids |-> adminCards, answered |-> {},
                   results |-> [k \in adminCards |-> None]]}
            /\ UNCHANGED cards
            /\ lastOp' = Op("onValueAdminCards", "index", "requested")
    /\ UNCHANGED <<store, tick, geo, aview, dview, pending, toggles, locSince,
                   locPending, panels, dashboard, currentPage, measures>>

\* get(ref(db, `cards/${cardId}`)) of a batch is answered with the card as
\* stored at that moment: cardSnapshot.exists() ? { id, ...val() } : null
getCard(batch, cardId) ==
    /\ batch \in batches
    /\ cardId \in batch.ids \ batch.answered
    /\ batches' = (batches \ {batch}) \cup
         {[batch EXCEPT !.answered = @ \cup {cardId},
                        !.results[cardId] = cardData[cardId]]}
    /\ lastOp' = Op("getCard", cardId, "answered")
    /\ UNCHANGED <<store, tick, geo, aview, dview, pending, toggles, locSince,
                   locPending, panels, dashboard, currentPage, measures,
                   cards, indexSeen>>

\* const results = await Promise.all(cardPromises); setCards(results.filter(...))
\* (every request answered; a failed request, which empties the list in the
\* catch branch, is not modelled)
setCards(batch) ==
    /\ batch \in batches
    /\ batch.answered = batch.ids
    /\ cards' = listOf(batch)
    /\ batches' = batches \ {batch}
    /\ lastOp' = Op("setCards", "batch", "listed")
    /\ UNCHANGED <<store, tick, geo, aview, dview, pending, toggles, locSince,
                   locPending, panels, dashboard, currentPage, measures, indexSeen>>

(***************************************************************************)
(* The card as created, no session, every component mounted and waiting    *)
(* for its position, the roster users registered with no attendance yet.   *)
(***************************************************************************)
NoView == [session |-> NoSession, attendance |-> << >>, checkoutEnabled |-> FALSE]

InitCard ==
    /\ current = NoSession
    /\ code = None
    /\ codeExpiresAt = 0
    /\ settings = NoSettings
    /\ attendance = [u \in UserKeys |-> << >>]
    /\ logs = [d \in Dates |-> << >>]
    /\ tick = 1
    /\ geo = [x \in Clients \cup Devices |-> GeoLoading]
    /\ aview = [c \in Clients |->
                  [current |-> NoSession, codeExpiresAt |-> 0, settings |-> NoSettings,
                   users |-> [u \in UserKeys |-> << >>], logs |-> [d \in Dates |-> << >>]]]
    /\ dview = [d \in Devices |-> NoView]
    /\ pending = [d \in Devices |-> None]
    /\ toggles = 0
    /\ locSince = [c \in Clients |-> 0]
    /\ locPending = [c \in Clients |-> None]
    /\ matrixData = None
    /\ selectedDate = [c \in Clients |-> Today]
    /\ dailyLog = [c \in Clients |-> << >>]
    /\ cardData = [k \in CardKeys |->
                     IF k = CardId THEN Some(newCardData("a1", "Physics")) ELSE None]
    /\ adminCards = {CardId}
    /\ pushed = 1
    /\ currentPage = [c \in Clients |-> 1]
    /\ cards = << >>
    /\ batches = {}
    /\ indexSeen = [no |-> 0, ids |-> {}]
    /\ measured = {}
    /\ lastOp = Op("Init", "none", "ok")

Roster == [u \in UserKeys |-> User(UserId(u), UserName(u))]

InitStore ==
    /\ InitCard
    /\ endpoints = <<HostLoc, HostLoc>>

Init ==
    /\ InitStore
    /\ usersData = Roster
    /\ logsData = << >>

(***************************************************************************)
(* The session state machine: every admin client against the store.        *)
(***************************************************************************)
Next ==
    \/ \E c \in Clients : onSuccess(c)
    \/ \E c \in Clients : onError(c)
    \/ \E c \in Clients : onValue(c)
    \/ \E c \in Clients, k \in RandomSamples, md \in {DefaultMaxDistance} :
         handleStartSession(c, k, md)
    \/ \E c \in Clients : handleStopSession(c)
    \/ \E c \in Clients, md \in {DefaultMaxDistance} : handleStartSessionSet(c, md)
    \/ \E c \in Clients : handleStopSessionRemove(c)
    \/ \E c \in Clients, k \in RandomSamples : codeRotationInterval(c, k)
    \/ AdvanceClock

Spec == Init /\ [][Next]_vars

(***************************************************************************)
(* handleToggleSignOut: writes the negation of the setting as rendered.    *)
(***************************************************************************)
handleToggleSignOut(c) ==
    /\ c \in CodeClients
    /\ LET currentStatus == aview[c].settings.signOutEnabled
       IN /\ settings' = [settings EXCEPT !.signOutEnabled = ~currentStatus]
          /\ aview' = [aview EXCEPT ![c].settings.signOutEnabled = ~currentStatus]
    /\ toggles' = toggles + 1
    /\ lastOp' = Op("handleToggleSignOut", c, "ok")
    /\ UNCHANGED <<current, code, codeExpiresAt, attendance, logs, tick, geo,
                   dview, pending, locPending, panels, dashboard, currentPage, measures, listing>>
    /\ locSince' = locationEffect

(***************************************************************************)
(* handleToggleCheckout: writes the negation of the setting as rendered.   *)
(***************************************************************************)
handleToggleCheckout(c) ==
    /\ c \in CodeClients
    /\ LET currentStatus == aview[c].settings.checkoutEnabled
       IN /\ settings' = [settings EXCEPT !.checkoutEnabled = ~currentStatus]
          /\ aview' = [aview EXCEPT ![c].settings.checkoutEnabled = ~currentStatus]
    /\ toggles' = toggles + 1
    /\ lastOp' = Op("handleToggleCheckout", c, "ok")
    /\ UNCHANGED <<current, code, codeExpiresAt, attendance, logs, tick, geo,
                   dview, pending, locPending, panels, dashboard, currentPage, measures, listing>>
    /\ locSince' = locationEffect

(***************************************************************************)
(* The participant's device.  It holds what its last one-shot reads        *)
(* returned: the session, the user's attendance, the checkout setting.     *)
(***************************************************************************)
\* fetchCurrentSession: GET cards/{cardId}/current.json
fetchCurrentSession(d) ==
    /\ dview[d].session # current
    /\ dview' = [dview EXCEPT ![d].session = current]
    /\ lastOp' = Op("fetchCurrentSession", d, "ok")
    /\ UNCHANGED <<store, tick, geo, aview, pending, toggles, locPending, panels, dashboard, currentPage, measures, listing>>
    /\ locSince' = locationEffect

\* fetchUsers: GET cards/{cardId}/users.json, the signed-in user's entry
fetchUsers(d) ==
    /\ dview[d].attendance # attendance[UserOf(d)]
    /\ dview' = [dview EXCEPT ![d].attendance = attendance[UserOf(d)]]
    /\ lastOp' = Op("fetchUsers", d, "ok")
    /\ UNCHANGED <<store, tick, geo, aview, pending, toggles, locPending, panels, dashboard, currentPage, measures, listing>>
    /\ locSince' = locationEffect

\* the read behind the checkoutEnabled prop
fetchSettings(d) ==
    /\ dview[d].checkoutEnabled # settings.checkoutEnabled
    /\ dview' = [dview EXCEPT ![d].checkoutEnabled = settings.checkoutEnabled]
    /\ lastOp' = Op("fetchSettings", d, "ok")
    /\ UNCHANGED <<store, tick, geo, aview, pending, toggles, locPending, panels, dashboard, currentPage, measures, listing>>
    /\ locSince' = locationEffect

(***************************************************************************)
(* WelcomeScreen.                                                          *)
(***************************************************************************)
\* Object.values(user.attendance || {}).find(r => r.sessionId === session.createdAt)
RecordKeys(d) ==
    {i \in 1..Len(dview[d].attendance) :
        dview[d].attendance[i].sessionId = dview[d].session.createdAt}
sessionAttendanceKey(d) == CHOOSE i \in RecordKeys(d) : \A j \in RecordKeys(d) : i <= j
isCheckedIn(d) == RecordKeys(d) # {}
isCheckedOut(d) ==
    isCheckedIn(d) /\ IsSome(dview[d].attendance[sessionAttendanceKey(d)].checkout)

\* getHaversineDistance(coordinates, session.location), in millimetres
distance(d) == getHaversineDistance(Get(geo[d].coordinates), Get(dview[d].session.location))

\* distance <= session.maxDistance, the maximum being whole metres
inRange_strict(d) == distance(d) < dview[d].session.maxDistance * 1000
inRange(d) == distance(d) <= dview[d].session.maxDistance * 1000

\* renderAttendanceStatus offering Check Out only within session.maxDistance
renderAttendanceStatus_gatedCheckout(d) ==
    IF ~dview[d].session.active THEN "NoActiveSession"
    ELSE IF dview[d].checkoutEnabled /\ isCheckedIn(d) /\ ~isCheckedOut(d)
         THEN IF IsSome(geo[d].coordinates) /\ IsSome(dview[d].session.location)
                 /\ ~inRange(d)
              THEN "OutOfRange" ELSE "CheckOut"
    ELSE IF dview[d].checkoutEnabled /\ isCheckedIn(d) /\ isCheckedOut(d) THEN "CheckedOut"
    ELSE IF ~dview[d].checkoutEnabled /\ isCheckedIn(d) THEN "AlreadyCheckedIn"
    ELSE IF geo[d].loading THEN "GeoLoading"
    ELSE IF geo[d].error THEN "GeoError"
    ELSE IF ~IsSome(dview[d].session.location) THEN "Nothing"
    ELSE IF inRange(d) THEN "CheckIn"
    ELSE "OutOfRange"

\* what renderAttendanceStatus shows, named after the outcome it stands for
renderAttendanceStatus(d) ==
    IF ~dview[d].session.active THEN "NoActiveSession"
    ELSE IF dview[d].checkoutEnabled /\ isCheckedIn(d) /\ ~isCheckedOut(d) THEN "CheckOut"
    ELSE IF dview[d].checkoutEnabled /\ isCheckedIn(d) /\ isCheckedOut(d) THEN "CheckedOut"
    ELSE IF ~dview[d].checkoutEnabled /\ isCheckedIn(d) THEN "AlreadyCheckedIn"
    ELSE IF geo[d].loading THEN "GeoLoading"
    ELSE IF geo[d].error THEN "GeoError"
    ELSE IF ~IsSome(dview[d].session.location) THEN "Nothing"
    ELSE IF inRange(d) THEN "CheckIn"
    ELSE "OutOfRange"

(***************************************************************************)
(* onMarkAttendance: the handler behind both WelcomeScreen buttons.  It    *)
(* stamps the participant's position and hands a new record to             *)
(* writeAttendanceRecord, or sets the checkout of the open record.         *)
(***************************************************************************)
Stamp(d) == [timestamp |-> now, location |-> Get(geo[d].coordinates),
             deviceInfo |-> DeviceOs(d)]

\* the AttendanceRecord of a check-in
newRecord(d) ==
    [userId |-> UserId(UserOf(d)), userName |-> UserName(UserOf(d)),
     sessionId |-> dview[d].session.createdAt, checkin |-> Stamp(d),
     checkout |-> None]

\* the whole record, userId and userName included, as the user copy
userRecord_whole(r) == r
\* const { userId, userName, ...userRecord } = record
userRecord(r) == [sessionId |-> r.sessionId, checkin |-> r.checkin,
                  checkout |-> r.checkout]

\* the daily-log copy of a user record: same user, session and check-in
IsLogCopy(l, u, r) ==
    l.userId = UserId(u) /\ l.sessionId = r.sessionId /\ l.checkin = r.checkin
LogCopies(date, u, r) == {i \in 1..Len(logs[date]) : IsLogCopy(logs[date][i], u, r)}
FirstOf(S) == CHOOSE i \in S : \A j \in S : i <= j

\* checkout as an append of a second record
checkOut_append(d) ==
    LET u == UserOf(d)
        r == attendance[u][sessionAttendanceKey(d)]
    IN /\ attendance' = [attendance EXCEPT
                           ![u] = Append(@, [r EXCEPT !.checkout = Some(Stamp(d))])]
       /\ logs' = logs
       /\ dview' = [dview EXCEPT ![d].attendance = attendance'[u]]

\* checkout = {timestamp, location, deviceInfo} set on the existing record,
\* in the user copy and in its daily-log copy
checkOut(d) ==
    LET u == UserOf(d)
        k == sessionAttendanceKey(d)
        r == attendance[u][k]
    IN /\ attendance' = [attendance EXCEPT ![u][k].checkout = Some(Stamp(d))]
       /\ logs' = [date \in Dates |->
                     IF LogCopies(date, u, r) = {} THEN logs[date]
                     ELSE [logs[date] EXCEPT
                             ![FirstOf(LogCopies(date, u, r))].checkout = Some(Stamp(d))]]
       /\ dview' = [dview EXCEPT ![d].attendance = attendance'[u]]

\* writeAttendanceRecord, first request: POST users/{userKey}/attendance.json
writeUserRecord(d) ==
    /\ Len(attendance[UserOf(d)]) < MaxRecords
    /\ \/ /\ attendance' = [attendance EXCEPT
                              ![UserOf(d)] = Append(@, userRecord(newRecord(d)))]
          /\ pending' = [pending EXCEPT ![d] = Some(newRecord(d))]
          /\ lastOp' = Op("onMarkAttendance", d, "userRecordWritten")
       \/ /\ lastOp' = Op("onMarkAttendance", d, "WriteFailed")
          /\ UNCHANGED <<attendance, pending>>
    /\ UNCHANGED <<logs, dview>>

onMarkAttendance(d) ==
    /\ pending[d] = None
    /\ LET status == renderAttendanceStatus(d)
       IN CASE status = "CheckIn" -> writeUserRecord(d)
            [] status = "CheckOut" /\ IsSome(geo[d].coordinates) ->
                 /\ checkOut(d)
                 /\ lastOp' = Op("onMarkAttendance", d, "checkedOut")
                 /\ UNCHANGED pending
            [] OTHER ->
                 /\ lastOp' = Op("onMarkAttendance", d, status)
                 /\ UNCHANGED <<attendance, logs, dview, pending>>
    /\ UNCHANGED <<current, code, codeExpiresAt, settings, tick, geo, aview, toggles, locPending, panels, dashboard, currentPage, measures, listing>>
    /\ locSince' = locationEffect

\* `${getFullYear()}-${month}-${date}` of new Date()
dateString == DateOf(now)

\* the second request as a PUT of logs/{dateString}.json
writeAttendanceRecord_log_put(d) ==
    /\ pending[d] # None
    /\ \/ /\ logs' = [logs EXCEPT ![dateString] = << Get(pending[d]) >>]
          /\ lastOp' = Op("writeAttendanceRecord", d, "checkedIn")
       \/ /\ lastOp' = Op("writeAttendanceRecord", d, "checkedInLogFailed")
          /\ UNCHANGED logs
       \/ /\ lastOp' = Op("writeAttendanceRecord", d, "rejected")
          /\ UNCHANGED logs
    /\ dview' = [dview EXCEPT ![d].attendance = attendance[UserOf(d)]]
    /\ pending' = [pending EXCEPT ![d] = None]
    /\ UNCHANGED <<current, code, codeExpiresAt, settings, attendance, tick, geo,
                   aview, toggles, locPending, panels, dashboard, currentPage, measures, listing>>
    /\ locSince' = locationEffect

\* writeAttendanceRecord, second request: POST logs/{dateString}.json.  A
\* response that is not ok is logged and the call returns; a request that
\* fails outright rejects the call.  Either way the device then shows the
\* user's attendance as stored.
writeAttendanceRecord_log(d) ==
    /\ pending[d] # None
    /\ \/ /\ logs' = [logs EXCEPT ![dateString] = Append(@, Get(pending[d]))]
          /\ lastOp' = Op("writeAttendanceRecord", d, "checkedIn")
       \/ /\ lastOp' = Op("writeAttendanceRecord", d, "checkedInLogFailed")
          /\ UNCHANGED logs
       \/ /\ lastOp' = Op("writeAttendanceRecord", d, "rejected")
          /\ UNCHANGED logs
    /\ dview' = [dview EXCEPT ![d].attendance = attendance[UserOf(d)]]
    /\ pending' = [pending EXCEPT ![d] = None]
    /\ UNCHANGED <<current, code, codeExpiresAt, settings, attendance, tick, geo,
                   aview, toggles, locPending, panels, dashboard, currentPage, measures, listing>>
    /\ locSince' = locationEffect

(***************************************************************************)
(* The check-in protocol: one admin client, the participants' devices.     *)
(***************************************************************************)
Host == {"a1"}
Protocol(devices, distances) ==
    \/ \E x \in Host \cup devices : onSuccess(x)
    \/ \E x \in Host \cup devices : onError(x)
    \/ \E c \in Host, k \in {0}, md \in distances : handleStartSession(c, k, md)
    \/ \E c \in Host : handleStopSession(c)
    \/ \E c \in Host : toggles < MaxToggles /\ handleToggleCheckout(c)
    \/ \E d \in devices : fetchCurrentSession(d)
    \/ \E d \in devices : fetchUsers(d)
    \/ \E d \in devices : fetchSettings(d)
    \/ \E d \in devices : onMarkAttendance(d)
    \/ \E d \in devices : writeAttendanceRecord_log(d)
    \/ tick < MaxAttendTick /\ AdvanceClock

\* d1 and d2, the two devices of one roster user, and a session of the default
\* radius
Participants == {"d1", "d2"}
NextAttend == Protocol(Participants, {DefaultMaxDistance})
SpecAttend == Init /\ [][NextAttend]_vars

\* one device of another user, anywhere, and sessions of the default radius
\* and of radius 0
NextSolo == Protocol({"d3"}, MaxDistanceInputs)
SpecSolo == Init /\ [][NextSolo]_vars

(***************************************************************************)
(* The background behaviour of part_001's CardDetail on two admin clients: *)
(* code rotation and location refresh around starts and stops.             *)
(***************************************************************************)
NextBackground ==
    \/ \E c \in CodeClients : onSuccess(c)
    \/ \E c \in CodeClients : onValue(c)
    \/ \E c \in CodeClients, k \in {0}, md \in {DefaultMaxDistance} :
         handleStartSession(c, k, md)
    \/ \E c \in CodeClients : handleStopSession(c)
    \/ \E c \in CodeClients, k \in {0} : codeRotationInterval(c, k)
    \/ \E c \in CodeClients : locationUpdateInterval(c)
    \/ \E c \in CodeClients, p \in HostPositions : locationUpdateSuccess(c, p)
    \/ \E c \in CodeClients : locationUpdateError(c)
    \/ AdvanceClock

SpecBackground == Init /\ [][NextBackground]_vars

(***************************************************************************)
(* The panels over any roster and any logs of two days.                    *)
(***************************************************************************)
MaxDayLog == 2
DayLogs == UNION {[1..n -> LogRecords] : n \in 0..MaxDayLog}
RosterInputs ==
    UNION {{[u \in S |-> User(UserId(u), n[u])] : n \in [S -> Names]} :
             S \in {{}, UserKeys}}
LogInputs ==
    UNION {[S -> DayLogs] : S \in SUBSET {QueryDates[i] : i \in 1..Len(QueryDates)}}

\* AttendanceMatrix over any roster and any logs
InitMatrix ==
    /\ InitStore
    /\ usersData \in RosterInputs
    /\ logsData \in LogInputs

NextMatrix == fetchData

SpecMatrix == InitMatrix /\ [][NextMatrix]_vars

\* the log subscriptions of part_001's CardDetail (a1) and of
\* components/CardDetail.tsx (a3) over any logs
InitLog ==
    /\ InitStore
    /\ usersData = Roster
    /\ logsData \in LogInputs

NextLog ==
    \E c \in {"a1", "a3"}, date \in DOMAIN logsData \cup {Today} : onValueLog(c, date)

SpecLog == InitLog /\ [][NextLog]_vars

\* UserManagement over the roster, each user signed in on a device or not
SignedIn(user, token) ==
    [f \in DOMAIN user \cup {"sessionId"} |-> IF f = "sessionId" THEN token ELSE user[f]]

InitRoster ==
    /\ InitStore
    /\ \E S \in SUBSET UserKeys :
         usersData = [u \in UserKeys |->
                        IF u \in S THEN SignedIn(Roster[u], SessionToken(u)) ELSE Roster[u]]
    /\ logsData = << >>

NextRoster ==
    \/ \E u \in UserKeys, name \in EditedNames, id \in EditedIds, ok \in BOOLEAN :
         handleSave(u, name, id, ok)
    \/ \E u \in UserKeys, ok \in BOOLEAN : handleClearSession(u, ok)

SpecRoster == InitRoster /\ [][NextRoster]_vars

(***************************************************************************)
(* The settings of the card under two admin clients.                       *)
(***************************************************************************)
MaxSettingToggles == 3

NextSettings ==
    \/ \E c \in CodeClients : onValue(c)
    \/ \E c \in CodeClients : toggles < MaxSettingToggles /\ handleToggleSignOut(c)
    \/ \E c \in CodeClients : toggles < MaxSettingToggles /\ handleToggleCheckout(c)

SpecSettings == Init /\ [][NextSettings]_vars

(***************************************************************************)
(* The dashboard on one tab of the admin (a2), CardDetail on another (a1)  *)
(* and one participant's device.                                           *)
(***************************************************************************)
MaxCardTick == 3

NextCards ==
    \/ \E n \in NewCardNames : handleCreateCard("a2", n)
    \/ \E k \in CardKeys : handleDeleteCard("a2", k)
    \/ \E x \in {"a1", "d2"} : onSuccess(x)
    \/ onValue("a1")
    \/ \E md \in {DefaultMaxDistance} : handleStartSession("a1", 0, md)
    \/ handleStopSession("a1")
    \/ codeRotationInterval("a1", 0)
    \/ locationUpdateInterval("a1")
    \/ \E p \in {NearLoc} : locationUpdateSuccess("a1", p)
    \/ fetchCurrentSession("d2")
    \/ fetchUsers("d2")
    \/ onMarkAttendance("d2")
    \/ writeAttendanceRecord_log("d2")
    \/ tick < MaxCardTick /\ AdvanceClock

SpecCards == Init /\ [][NextCards]_vars

(***************************************************************************)
(* getHaversineDistance between two points, in either direction and from   *)
(* each point to itself.  The points lie within one geofence of each       *)
(* other, around the host's position and around latitude 0, longitude 0.   *)
(***************************************************************************)
PointsNorth == {HostLoc, NearLoc, FarLoc, Loc(51501000, 0 - 118000)}
PointsOrigin == {Loc(0, 0), Loc(1000, 0 - 1000), Loc(0 - 2000, 1500),
                 Loc(0 - 1500, 0 - 2000)}

measure(i, j) ==
    /\ measured' = measured \cup
         {[start |-> endpoints[i], end |-> endpoints[j],
           distance |-> getHaversineDistance(endpoints[i], endpoints[j])]}
    /\ measured' # measured
    /\ lastOp' = Op("getHaversineDistance", "none", "ok")
    /\ UNCHANGED <<store, tick, geo, aview, dview, pending, toggles, locSince,
                   locPending, panels, dashboard, currentPage, endpoints, listing>>

InitDistance ==
    /\ InitCard
    /\ usersData = Roster
    /\ logsData = << >>
    /\ endpoints \in (PointsNorth \X PointsNorth) \cup (PointsOrigin \X PointsOrigin)

NextDistance == \E i, j \in 1..2 : measure(i, j)

SpecDistance == InitDistance /\ [][NextDistance]_vars

(***************************************************************************)
(* Properties of the session state machine.                                *)
(***************************************************************************)
Inactive == current = NoSession /\ code = None /\ codeExpiresAt = 0
StartOps == {"handleStartSession", "handleStartSessionSet"}

\* C1: a reader of the store never sees current.active = true while code or
\* codeExpiresAt is absent (start and stop each being one atomic write of the
\* three keys).
C1_ActiveHasCode == current.active => (code # None /\ codeExpiresAt # 0)

\* C2: a start attempted while the admin's coordinates are unresolved ends with
\* the location-unavailable outcome and leaves the whole store as it was.
C2_StartNeedsLocation ==
    [][\A c \in Clients :
         (lastOp'.op \in StartOps /\ lastOp'.who = c /\ ~IsSome(geo[c].coordinates))
         => (lastOp'.outcome = "LocationUnavailable" /\ UNCHANGED store)]_vars

\* a start was refused for lack of coordinates
C2_Witness ==
    /\ lastOp.op = "handleStartSession"
    /\ lastOp.outcome = "LocationUnavailable"
    /\ ~IsSome(geo[lastOp.who].coordinates)
    /\ ~geo[lastOp.who].loading

IsCode(s) ==
    /\ Len(s) = 4
    /\ s[1] \in 1..9
    /\ \A i \in 2..4 : s[i] \in 0..9
Generated ==
    \/ lastOp.op = "handleStartSession" /\ lastOp.outcome = "started"
    \/ lastOp.op = "codeRotationInterval" /\ lastOp.outcome = "regenerated"

\* C4: while a session is active the code is four decimal digits, the first
\* not zero; right after a start or a regeneration codeExpiresAt is the clock
\* reading plus 120000 ms.
C4_CodeShapeAndExpiry ==
    /\ current.active => IsCode(code)
    /\ Generated => codeExpiresAt = now + 120000

(***************************************************************************)
(* Properties of the check-in protocol.                                    *)
(***************************************************************************)
Marked(d) == lastOp'.op = "onMarkAttendance" /\ lastOp'.who = d
Logged(d) == lastOp'.op = "writeAttendanceRecord" /\ lastOp'.who = d

\* C5: a check-in submitted while the stored session is absent or inactive
\* writes no record and is not accepted, also when the session was stopped
\* after the device had read it.
C5_NoActiveSession ==
    [][\A d \in Devices :
         (Marked(d) /\ ~current.active /\ ~isCheckedIn(d))
         => /\ lastOp'.outcome # "userRecordWritten"
            /\ UNCHANGED <<attendance, logs>>]_vars

\* the device may submit a check-in: it holds an active session with a
\* location, no record for it, and its own position
CheckInAttempt(d) ==
    /\ dview[d].session.active
    /\ IsSome(dview[d].session.location)
    /\ ~isCheckedIn(d)
    /\ IsSome(geo[d].coordinates)

\* C6: with d the Haversine distance between the participant and the session
\* location, a check-in is accepted iff d <= session.maxDistance; otherwise it
\* ends with OutOfRange and writes no record.  No user record appears except
\* by an accepted check-in.
C6_RangeGate ==
    [][\A d \in Devices :
         LET dist == getHaversineDistance(Get(geo[d].coordinates),
                                          Get(dview[d].session.location))
             max == dview[d].session.maxDistance * 1000
         IN /\ (Marked(d) /\ CheckInAttempt(d) /\ dist <= max)
               => lastOp'.outcome \in {"userRecordWritten", "WriteFailed"}
            /\ (Marked(d) /\ CheckInAttempt(d) /\ dist > max)
               => (lastOp'.outcome = "OutOfRange" /\ UNCHANGED <<attendance, logs>>)
            /\ (Marked(d) /\ Len(attendance'[UserOf(d)]) > Len(attendance[UserOf(d)]))
               => (CheckInAttempt(d) /\ dist <= max)]_vars

\* a check-in was accepted exactly at the limit, d = session.maxDistance
C6_Witness ==
    /\ lastOp.op = "onMarkAttendance"
    /\ lastOp.outcome = "userRecordWritten"
    /\ distance(lastOp.who) = dview[lastOp.who].session.maxDistance * 1000
    /\ Len(attendance[UserOf(lastOp.who)]) = 1

\* the user copy a check-in by device d is to append
UserCopy(d) ==
    [sessionId |-> dview[d].session.createdAt,
     checkin |-> [timestamp |-> now, location |-> Get(geo[d].coordinates),
                  deviceInfo |-> DeviceOs(d)],
     checkout |-> None]
\* the daily-log copy of the check-in device d has in flight
LogCopy(d) ==
    [userId |-> UserId(UserOf(d)), userName |-> UserName(UserOf(d)),
     sessionId |-> Get(pending[d]).sessionId, checkin |-> Get(pending[d]).checkin,
     checkout |-> None]
UserCopyAppended(d) ==
    /\ attendance' = [attendance EXCEPT ![UserOf(d)] = Append(@, UserCopy(d))]
    /\ logs' = logs
LogCopyAppended(d) ==
    /\ logs' = [logs EXCEPT ![DateOf(now)] = Append(@, LogCopy(d))]
    /\ attendance' = attendance
    /\ \E i \in 1..Len(attendance[UserOf(d)]) :
         /\ attendance[UserOf(d)][i].sessionId = LogCopy(d).sessionId
         /\ attendance[UserOf(d)][i].checkin = LogCopy(d).checkin
Returned == {"checkedIn", "checkedInLogFailed"}

TwoOpen(u, i, j) ==
    /\ i # j
    /\ attendance[u][i].sessionId = attendance[u][j].sessionId
    /\ attendance[u][i].checkout = None
    /\ attendance[u][j].checkout = None

\* C8: whatever the submissions, from one device or two, a user has at most
\* one open record per sessionId.
C8_OneOpenRecord ==
    \A u \in UserKeys : \A i, j \in 1..Len(attendance[u]) : ~TwoOpen(u, i, j)

\* record b is record a with nothing but its checkout possibly changed
SameButCheckout(a, b) == [b EXCEPT !.checkout = a.checkout] = a
CheckedOutStep(d) == Marked(d) /\ lastOp'.outcome = "checkedOut"
CheckoutStamp(d) ==
    Some([timestamp |-> now, location |-> Get(geo[d].coordinates),
          deviceInfo |-> DeviceOs(d)])

\* C9: a check-out sets checkout on the user's record of the session in
\* place, and on its daily-log copy: no user's attendance and no day's log
\* changes length, no record changes in anything but checkout, exactly one
\* user record and at most one log record, its copy, get the new checkout.
C9_CheckoutInPlace ==
    [][\A d \in Devices : CheckedOutStep(d) =>
         LET u == UserOf(d) IN
         /\ \A v \in UserKeys :
              /\ Len(attendance'[v]) = Len(attendance[v])
              /\ \A i \in 1..Len(attendance[v]) :
                   SameButCheckout(attendance[v][i], attendance'[v][i])
         /\ \A date \in Dates :
              /\ Len(logs'[date]) = Len(logs[date])
              /\ \A i \in 1..Len(logs[date]) :
                   SameButCheckout(logs[date][i], logs'[date][i])
         /\ \E k \in 1..Len(attendance[u]) :
              /\ attendance[u][k].sessionId = dview[d].session.createdAt
              /\ attendance'[u][k].checkout = CheckoutStamp(d)
              /\ \A v \in UserKeys : \A i \in 1..Len(attendance[v]) :
                   <<v, i>> # <<u, k>> => attendance'[v][i] = attendance[v][i]
              /\ \A date \in Dates : \A i \in 1..Len(logs[date]) :
                   \/ logs'[date][i] = logs[date][i]
                   \/ /\ IsLogCopy(logs[date][i], u, attendance[u][k])
                      /\ logs'[date][i].checkout = CheckoutStamp(d)
              /\ (\E date \in Dates : LogCopies(date, u, attendance[u][k]) # {})
                 => \E date \in Dates : \E i \in LogCopies(date, u, attendance[u][k]) :
                      logs'[date][i].checkout = CheckoutStamp(d)]_vars

\* a check-out has just stamped the user's only record and its log copy
C9_Witness ==
    /\ lastOp.op = "onMarkAttendance"
    /\ lastOp.outcome = "checkedOut"
    /\ LET u == UserOf(lastOp.who) IN
       /\ Len(attendance[u]) = 1
       /\ IsSome(attendance[u][1].checkout)
       /\ Len(logs[DateOf(now)]) = 1
       /\ logs[DateOf(now)][1].checkout = attendance[u][1].checkout

CheckOutAttempt(d) ==
    /\ dview[d].session.active
    /\ dview[d].checkoutEnabled
    /\ isCheckedIn(d)
    /\ ~isCheckedOut(d)
    /\ IsSome(geo[d].coordinates)

\* C11: a check-out submitted by a participant holding an open record for the
\* session, with checkoutEnabled, succeeds from every location, whatever its
\* distance from the session location: the record gets the submitted stamp.
C11_CheckoutAnyDistance ==
    [][\A d \in Devices :
         (Marked(d) /\ CheckOutAttempt(d))
         => /\ lastOp'.outcome = "checkedOut"
            /\ attendance'[UserOf(d)][sessionAttendanceKey(d)].checkout
                 = CheckoutStamp(d)]_vars

\* a check-out went through from farther than session.maxDistance
C11_Witness ==
    /\ lastOp.op = "onMarkAttendance"
    /\ lastOp.outcome = "checkedOut"
    /\ IsSome(dview[lastOp.who].session.location)
    /\ distance(lastOp.who) > dview[lastOp.who].session.maxDistance * 1000
    /\ \E i \in 1..Len(attendance[UserOf(lastOp.who)]) :
         /\ IsSome(attendance[UserOf(lastOp.who)][i].checkout)
         /\ Get(attendance[UserOf(lastOp.who)][i].checkout).location = FarLoc

\* C12: when the user's copy is written and the daily-log request then
\* fails, by an error status or by a network failure, writeAttendanceRecord
\* still returns (no exception reaches the caller) and the user's copy stays;
\* when the user's copy request fails the call fails and no daily-log request
\* is made.
C12_PartialFailure ==
    [][\A d \in Devices :
         /\ (Logged(d) /\ lastOp'.outcome # "checkedIn")
            => /\ lastOp'.outcome = "checkedInLogFailed"
               /\ attendance' = attendance
         /\ (Marked(d) /\ lastOp'.outcome = "WriteFailed")
            => /\ pending'[d] = None
               /\ UNCHANGED <<attendance, logs>>]_vars

(***************************************************************************)
(* Properties of the background behaviour of CardDetail.                   *)
(***************************************************************************)
\* C13: a client writes a regenerated code only when, as it decides, the
\* stored code has expired (now >= codeExpiresAt) and its identity is the
\* session's hostId; an observer that is not the host writes neither code nor
\* codeExpiresAt.
C13_RotateOnlyExpiredByHost ==
    [][/\ (lastOp'.op = "codeRotationInterval" /\ lastOp'.outcome = "regenerated")
          => /\ now >= codeExpiresAt
             /\ Uid(lastOp'.who) = current.hostId
       /\ (lastOp'.op = "codeRotationInterval" /\ lastOp'.outcome = "notHost")
          => UNCHANGED <<code, codeExpiresAt>>]_vars

\* C15: a card has at most one CurrentSession, and createdAt identifies it:
\* a session that a start writes over a session still stored as active (any
\* client, any order) has a createdAt different from the one it supersedes.
C15_UniqueCreatedAt ==
    [][(lastOp'.op \in StartOps /\ lastOp'.outcome = "started" /\ current.active)
         => current'.createdAt # current.createdAt]_vars

\* C14: once the session a host client shows has become inactive, that client
\* writes nothing more from the session's background behaviour: no regenerated
\* code and no host location, timer ticks and geolocation callbacks pending at
\* the stop included.
BackgroundWrite(c) ==
    /\ lastOp'.who = c
    /\ \/ lastOp'.op = "codeRotationInterval" /\ lastOp'.outcome = "regenerated"
       \/ lastOp'.op = "locationUpdateSuccess"

C14_NoBackgroundWriteAfterStop ==
    [][\A c \in Clients : BackgroundWrite(c) => aview[c].current.active]_vars

\* C16: a refresh of the host's location takes effect only while the session
\* is active and only from its host; it is the session the refresh was begun
\* for (same createdAt), and only its location changes: active, cardId,
\* createdAt, hostId, hostName, maxDistance, the code and its expiry stay.
C16_RefreshOnlyLocation ==
    [][\A c \in Clients :
         (lastOp'.who = c /\ lastOp'.op = "locationUpdateSuccess")
         => /\ current.active
            /\ Uid(c) = current.hostId
            /\ current.createdAt = Get(locPending[c])
            /\ current' = [current EXCEPT !.location = current'.location]
            /\ current'.active
            /\ UNCHANGED <<code, codeExpiresAt, settings, attendance, logs>>]_vars

(***************************************************************************)
(* Properties of the admin's panels.                                       *)
(***************************************************************************)
\* C17: the matrix lists the roster's users sorted by name and the days that
\* have a log, sorted; a user is present on a day if and only if that day's
\* log holds a record of that user with a check-in timestamp, whether or not
\* the record has a checkout.
C17_MatrixPresence ==
    [][(lastOp'.op = "fetchData" /\ lastOp'.outcome = "ok")
       => LET m == Get(matrixData')
              entry(u) == [id |-> usersData[u]["id"], name |-> usersData[u]["name"]]
          IN  /\ Len(m.users) = Cardinality(DOMAIN usersData)
              /\ {m.users[i] : i \in 1..Len(m.users)} = {entry(u) : u \in DOMAIN usersData}
              /\ \A i, j \in 1..Len(m.users) :
                   i < j => localeCompare(m.users[i].name, m.users[j].name) <= 0
              /\ Len(m.dates) = Cardinality(DOMAIN logsData)
              /\ {m.dates[i] : i \in 1..Len(m.dates)} = DOMAIN logsData
              /\ \A i, j \in 1..Len(m.dates) :
                   i < j => compareUnits(Chars(m.dates[i]), Chars(m.dates[j])) < 0
              /\ \A u \in DOMAIN usersData, date \in DOMAIN logsData :
                   m.records[usersData[u]["id"]][date]
                     = (\E i \in 1..Len(logsData[date]) :
                          /\ logsData[date][i].userId = usersData[u]["id"]
                          /\ logsData[date][i].checkin # None)]_vars

\* the matrix of a roster whose name order is not its key order, u1 present
\* on the 9th by a record that has a checkout, absent on the 10th where its
\* only record has no check-in
C17_Witness ==
    /\ matrixData # None
    /\ DOMAIN logsData = {"2024-05-09", "2024-05-10"}
    /\ LET m == Get(matrixData)
       IN  /\ Len(m.users) = 2
           /\ m.users[1].id = UserId("u2")
           /\ m.dates = <<"2024-05-09", "2024-05-10">>
           /\ m.records[UserId("u1")]["2024-05-09"]
           /\ ~m.records[UserId("u1")]["2024-05-10"]
    /\ \E i \in 1..Len(logsData["2024-05-09"]) :
         /\ logsData["2024-05-09"][i].userId = UserId("u1")
         /\ logsData["2024-05-09"][i].checkout # None
    /\ \E i \in 1..Len(logsData["2024-05-10"]) :
         /\ logsData["2024-05-10"][i].userId = UserId("u1")
         /\ logsData["2024-05-10"][i].checkin = None

\* C18: the daily log a client shows for a date is exactly the records
\* stored under that date, ordered by check-in timestamp descending: of two
\* adjacent records the one listed first has the later or equal check-in.
Occurrences(seq, r) == Cardinality({i \in 1..Len(seq) : seq[i] = r})

C18_DailyLogDescending ==
    [][\A c \in Clients :
         LET stored == recordsOf(selectedDate'[c])
             shown == dailyLog'[c]
         IN  (/\ lastOp'.op = "onValueLog"
              /\ lastOp'.who = c
              /\ \A i \in 1..Len(stored) : stored[i].checkin # None)
             => /\ Len(shown) = Len(stored)
                /\ \A i \in 1..Len(stored) :
                     Occurrences(shown, stored[i]) = Occurrences(stored, stored[i])
                /\ \A i \in 1..(Len(shown) - 1) :
                     Get(shown[i].checkin).timestamp
                       >= Get(shown[i + 1].checkin).timestamp]_vars

\* C19: clearing a user's session token leaves the stored user without the
\* field (absent, not null) and with its id, name, registration timestamp
\* and attendance as they were; an edit of name and id changes only those two
\* fields.  No other user changes either way.
SameExcept(u, fields) ==
    /\ DOMAIN usersData'[u] \ fields = DOMAIN usersData[u] \ fields
    /\ \A f \in DOMAIN usersData[u] \ fields : usersData'[u][f] = usersData[u][f]
    /\ \A v \in UserKeys \ {u} : usersData'[v] = usersData[v]
    /\ attendance' = attendance

C19_ClearRemovesTokenOnly ==
    [][\A u \in UserKeys :
         /\ (lastOp'.op = "handleClearSession" /\ lastOp'.who = u /\ lastOp'.outcome = "ok")
            => /\ "sessionId" \notin DOMAIN usersData'[u]
               /\ SameExcept(u, {"sessionId"})
         /\ (lastOp'.op = "handleSave" /\ lastOp'.who = u /\ lastOp'.outcome = "ok")
            => /\ SameExcept(u, {"name", "id"})
               /\ {"name", "id"} \subseteq DOMAIN usersData'[u]]_vars

\* u1's token has just been cleared after its name and id were edited, while
\* u2 is still signed in
C19_Witness ==
    /\ lastOp = Op("handleClearSession", "u1", "ok")
    /\ DOMAIN usersData["u1"] = {"id", "name", "timestamp"}
    /\ usersData["u1"]["name"] = "Bob"
    /\ usersData["u1"]["id"] = "2001"
    /\ usersData["u1"]["timestamp"] = RegisteredAt
    /\ "sessionId" \in DOMAIN usersData["u2"]

\* C20: every completed toggle of signOutEnabled or of checkoutEnabled leaves
\* the stored flag the negation of what was stored just before its write, so
\* that two toggles by two admin clients restore the flag, and leaves the
\* other flag as it was.
C20_ToggleNegatesStored ==
    [][/\ lastOp'.op = "handleToggleSignOut"
          => /\ settings'.signOutEnabled = ~settings.signOutEnabled
             /\ settings'.checkoutEnabled = settings.checkoutEnabled
       /\ lastOp'.op = "handleToggleCheckout"
          => /\ settings'.checkoutEnabled = ~settings.checkoutEnabled
             /\ settings'.signOutEnabled = settings.signOutEnabled]_vars

(***************************************************************************)
(* Properties of the dashboard.                                            *)
(***************************************************************************)
\* something is stored under cards/{key}
DataExists(k) ==
    \/ cardData[k] # None
    \/ /\ k = CardId
       /\ \/ current # NoSession
          \/ code # None
          \/ codeExpiresAt # 0
          \/ settings # NoSettings
          \/ \E u \in UserKeys : attendance[u] # << >>
          \/ \E d \in Dates : logs[d] # << >>
          \/ DOMAIN usersData # {}

\* C21: creating and deleting a card write cards/{cardId} and the admin's
\* index together, and deletion removes everything under the card; so data
\* exists under cards/{cardId} exactly if the admin's index lists cardId,
\* also after a check-in, a code rotation or a location refresh by another
\* client.
Indexed == \A k \in CardKeys : DataExists(k) <=> k \in adminCards

C21_CardIffIndexed ==
    [][(/\ Indexed
        /\ lastOp'.op \in {"handleCreateCard", "handleDeleteCard", "onMarkAttendance",
                           "writeAttendanceRecord", "codeRotationInterval",
                           "locationUpdateSuccess"})
       => Indexed']_vars

(***************************************************************************)
(* Properties of getHaversineDistance.                                     *)
(***************************************************************************)
\* C22: the distance is symmetric and zero on identical points: the distance
\* from a to b equals the distance from b to a, and the distance from a to a
\* is 0.
C22_DistanceSymmetric ==
    \A m, n \in measured :
        /\ (m.start = n.end /\ m.end = n.start) => m.distance = n.distance
        /\ m.start = m.end => m.distance = 0

\* both directions measured between two distinct points, one south-west of
\* the other, and each point measured to itself
C22_Witness ==
    /\ endpoints[1].latitude < endpoints[2].latitude
    /\ endpoints[1].longitude < endpoints[2].longitude
    /\ Cardinality(measured) = 4
    /\ \E m \in measured : m.start = endpoints[1] /\ m.end = endpoints[2] /\ m.distance > 0

(***************************************************************************)
(* Properties of the access code and of the location refresh.              *)
(***************************************************************************)
\* C23: the code is rotated only while a session is active: whenever the card
\* has no current session, code and codeExpiresAt are absent, also when the
\* rotation timer of a host client ticks before that client has seen the stop.
C23_NoSessionNoCode ==
    current = NoSession => (code = None /\ codeExpiresAt = 0)

\* C24: a refresh tick at which the host's device cannot give a location
\* writes nothing and leaves the session as it is; the timer keeps running,
\* and while the session stays active the refresh is attempted again at the
\* next fixed interval: nothing but the timer's own tick moves its schedule.
C24_FailedTickRetried ==
    [][\A c \in CodeClients :
         /\ (lastOp'.op = "locationUpdateError" /\ lastOp'.who = c)
            => /\ UNCHANGED <<store, aview>>
               /\ locSince'[c] = locSince[c]
         /\ (/\ lastOp.op = "locationUpdateError" /\ lastOp.who = c
             /\ isHosting(c, aview[c]) /\ isHosting(c, aview'[c])
             /\ current.active /\ current'.active
             /\ lastOp'.op # "locationUpdateInterval")
            => locSince'[c] = locSince[c]]_vars

(***************************************************************************)
(* The host's timers under fair scheduling: one host tab that starts a     *)
(* session and keeps it open, a device that always resolves its position,  *)
(* and one participant checking in.  A timer callback that is due runs     *)
(* before the clock reaches the next sampled instant, and due callbacks    *)
(* and delivered snapshots are not postponed for ever (weak fairness); the *)
(* participant's steps are voluntary and the session is never stopped.     *)
(***************************************************************************)
TimersIdle ==
    /\ ~ ENABLED codeRotationInterval("a1", 0)
    /\ ~ ENABLED locationUpdateInterval("a1")
    /\ ~ ENABLED (\E p \in HostPositions : locationUpdateSuccess("a1", p))

Elapse == TimersIdle /\ AdvanceClock

NextRefresh ==
    \/ \E x \in {"a1", "d2"} : onSuccess(x)
    \/ onValue("a1")
    \/ \E md \in {DefaultMaxDistance} : handleStartSession("a1", 0, md)
    \/ codeRotationInterval("a1", 0)
    \/ locationUpdateInterval("a1")
    \/ \E p \in HostPositions : locationUpdateSuccess("a1", p)
    \/ fetchCurrentSession("d2")
    \/ fetchUsers("d2")
    \/ onMarkAttendance("d2")
    \/ writeAttendanceRecord_log("d2")
    \/ Elapse

SpecRefresh ==
    /\ Init
    /\ [][NextRefresh]_vars
    /\ WF_vars(Elapse)
    /\ WF_vars(onValue("a1"))
    /\ WF_vars(codeRotationInterval("a1", 0))
    /\ WF_vars(locationUpdateInterval("a1"))
    /\ WF_vars(\E p \in HostPositions : locationUpdateSuccess("a1", p))

C26_RegenerationPending ==
    \E c \in CodeClients :
        \/ aview[c] # CardSnapshot
        \/ /\ aview[c].codeExpiresAt # 0
           /\ aview[c].current.active
           /\ Uid(c) = aview[c].current.hostId

C26_CodeLiveOrPending ==
    current.active =>
        \/ (code # None /\ codeExpiresAt > now)
        \/ C26_RegenerationPending

\* C27: for one expiry each attached host client issues at most one
\* regeneration write: its write replaces the expiry it saw by a later one,
\* which its own view shows at once, so its timer does not fire for that
\* expiry again; two host tabs give at most one extra write.  The stored
\* code and expiry are always the pair one writer wrote together: no step
\* changes one of them without setting both, by one start or regeneration
\* (a pair of its own sample and of now + 2 min) or by one removal of both.
C27_OneWritePerExpiry ==
    [][/\ \A c \in CodeClients :
            (/\ lastOp'.op = "codeRotationInterval" /\ lastOp'.who = c
             /\ lastOp'.outcome = "regenerated")
            => /\ codeExpiresAt' > aview[c].codeExpiresAt
               /\ aview'[c].codeExpiresAt = codeExpiresAt'
               /\ RoundSeconds(aview'[c].codeExpiresAt - now') > 0
       /\ (code' # code \/ codeExpiresAt' # codeExpiresAt)
            => \/ /\ lastOp'.op \in {"handleStartSession", "codeRotationInterval"}
                  /\ \E k \in RandomSamples : code' = newCode(k)
                  /\ codeExpiresAt' = now + CodeTtlMs
               \/ /\ lastOp'.op \in {"handleStopSession", "handleDeleteCard"}
                  /\ code' = None /\ codeExpiresAt' = 0]_vars

\* a second host tab has regenerated on its stale view while the first tab
\* already holds the unexpired code of its own regeneration
C27_Witness ==
    /\ lastOp = Op("codeRotationInterval", "a2", "regenerated")
    /\ aview["a1"].current.active
    /\ aview["a1"].codeExpiresAt > now
    /\ aview["a1"].codeExpiresAt # codeExpiresAt
    /\ aview["a1"].codeExpiresAt # aview["a1"].current.createdAt + CodeTtlMs

(***************************************************************************)
(* Participants of two different roster users checking in and out of one   *)
(* session at the same time.                                               *)
(***************************************************************************)
Crowd == {"d2", "d3"}
NextCrowd ==
    \/ \E x \in Host \cup Crowd : onSuccess(x)
    \/ \E c \in Host, md \in {DefaultMaxDistance} : handleStartSession(c, 0, md)
    \/ \E c \in Host : toggles < MaxToggles /\ handleToggleCheckout(c)
    \/ \E d \in Crowd : fetchCurrentSession(d)
    \/ \E d \in Crowd : fetchUsers(d)
    \/ \E d \in Crowd : fetchSettings(d)
    \/ \E d \in Crowd : onMarkAttendance(d)
    \/ \E d \in Crowd : writeAttendanceRecord_log(d)
    \/ tick < MaxAttendTick /\ AdvanceClock

SpecCrowd == Init /\ [][NextCrowd]_vars

InitLedger ==
    /\ InitStore
    /\ usersData = [u \in UserKeys |-> SignedIn(Roster[u], SessionToken(u))]
    /\ logsData = << >>

NextLedger ==
    \/ \E x \in {"a1", "d2"} : onSuccess(x)
    \/ onValue("a1")
    \/ \E md \in {DefaultMaxDistance} : handleStartSession("a1", 0, md)
    \/ handleStopSession("a1")
    \/ codeRotationInterval("a1", 0)
    \/ locationUpdateInterval("a1")
    \/ \E p \in {NearLoc} : locationUpdateSuccess("a1", p)
    \/ toggles < MaxToggles /\ handleToggleCheckout("a1")
    \/ toggles < MaxToggles /\ handleToggleSignOut("a1")
    \/ handleSave("u1", " Bob ", "2001", TRUE)
    \/ handleClearSession("u1", TRUE)
    \/ fetchCurrentSession("d2")
    \/ fetchUsers("d2")
    \/ fetchSettings("d2")
    \/ onMarkAttendance("d2")
    \/ writeAttendanceRecord_log("d2")
    \/ tick < MaxCardTick /\ AdvanceClock

SpecLedger == InitLedger /\ [][NextLedger]_vars

\* the operations that are no check-in and no check-out
LedgerBystanders ==
    {"handleStartSession", "handleStopSession", "codeRotationInterval",
     "locationUpdateInterval", "locationUpdateSuccess", "handleToggleSignOut",
     "handleToggleCheckout", "handleSave", "handleClearSession"}

\* C29: the ledger is append-only and its records immutable.  No step but
\* the deletion of the card removes a record of a user mapping or of a daily
\* log or changes the sessionId or the check-in data of one (nor the userId
\* of a log record); and starting or stopping a session, rotating the code,
\* refreshing the host's location, toggling a setting and editing the roster
\* leave the user mappings and the daily logs exactly as they were.
C29_LedgerAppendOnly ==
    [][/\ lastOp'.op # "handleDeleteCard"
          => /\ \A u \in UserKeys :
                  /\ Len(attendance'[u]) >= Len(attendance[u])
                  /\ \A i \in 1..Len(attendance[u]) :
                       /\ attendance'[u][i].sessionId = attendance[u][i].sessionId
                       /\ attendance'[u][i].checkin = attendance[u][i].checkin
             /\ \A date \in Dates :
                  /\ Len(logs'[date]) >= Len(logs[date])
                  /\ \A i \in 1..Len(logs[date]) :
                       /\ logs'[date][i].userId = logs[date][i].userId
                       /\ logs'[date][i].sessionId = logs[date][i].sessionId
                       /\ logs'[date][i].checkin = logs[date][i].checkin
       /\ lastOp'.op \in LedgerBystanders => UNCHANGED <<attendance, logs>>]_vars

\* the roster entry of a user who has a record in both places has just been
\* edited, after the session of that record was stopped
C29_Witness ==
    /\ lastOp = Op("handleSave", "u1", "ok")
    /\ ~current.active
    /\ attendance["u1"] # << >>
    /\ \E date \in Dates : logs[date] # << >>

(***************************************************************************)
(* The pages of the daily log: logs of no record, of less than a page, of  *)
(* exactly one page and of more than two pages under the two dates, and    *)
(* two admin tabs choosing dates and turning pages.                        *)
(***************************************************************************)
MaxPageLog == 25
PageSizes == {0, 5, ITEMS_PER_PAGE, MaxPageLog}
PageLog(n) ==
    [i \in 1..n |->
       LogRecord(IF i % 2 = 0 THEN "u1" ELSE "u2", Some(LogStamp(StartMs + i)), None)]

InitPages ==
    /\ InitStore
    /\ usersData = Roster
    /\ \E n \in [{QueryDates[i] : i \in 1..Len(QueryDates)} -> PageSizes] :
         logsData = [date \in DOMAIN n |-> PageLog(n[date])]

NextPages ==
    \/ \E c \in CodeClients, date \in DOMAIN logsData : onValueLog(c, date)
    \/ \E c \in CodeClients : handlePrevious(c)
    \/ \E c \in CodeClients : handleNext(c)

SpecPages == InitPages /\ [][NextPages]_vars

\* C30: the log is shown in pages of 10.  The page shown holds the records at
\* the 0-based positions (p - 1) * 10 .. p * 10 - 1 of the sorted log; the
\* pages 1 .. ceil(n / 10) hold every record at exactly one place (each page
\* but the last is full, the last holds the rest, and the record at position
\* i is the one page i div 10 + 1 shows at i mod 10); and under any sequence
\* of Previous, Next and date changes the current page is within
\* 1 .. max(1, ceil(n / 10)), a date change putting it back to 1.
C30_PagesInRange ==
    \A c \in CodeClients :
        LET log == dailyLog[c]
            n == Len(log)
            pages == (n + 9) \div 10
            p == currentPage[c]
        IN  /\ p >= 1
            /\ p <= (IF pages > 1 THEN pages ELSE 1)
            /\ paginatedLog(c) =
                 [i \in 1..(IF p * 10 <= n THEN 10 ELSE IF n > (p - 1) * 10
                                                        THEN n - (p - 1) * 10 ELSE 0) |->
                    log[(p - 1) * 10 + i]]
            /\ totalPages(c) = pages
            /\ \A q \in 1..pages :
                 Len(pageOf(log, q)) = (IF q < pages THEN 10 ELSE n - (pages - 1) * 10)
            /\ \A i \in 0..(n - 1) :
                 pageOf(log, (i \div 10) + 1)[(i % 10) + 1] = log[i + 1]

C30_Pagination ==
    [][/\ C30_PagesInRange'
       /\ \A c \in CodeClients :
            (selectedDate'[c] # selectedDate[c]) => currentPage'[c] = 1]_vars

\* a tab has paged to the third and last page of a log of 25 records, which
\* shows the last 5
C30_Witness ==
    /\ lastOp = Op("handleNext", "a1", "ok")
    /\ Len(dailyLog["a1"]) = MaxPageLog
    /\ currentPage["a1"] = 3
    /\ Len(paginatedLog("a1")) = 5

\* C31: the node cards/{cardId}/current is either absent or a complete
\* session record: active, with cardId, createdAt, hostId, hostName and
\* location (and maxDistance, which start always writes); no start, stop or
\* host-location refresh leaves a partial node such as one holding only a
\* location.
C31_CurrentAbsentOrComplete ==
    \/ current = NoSession
    \/ /\ current.active
       /\ current.cardId # ""
       /\ current.createdAt # 0
       /\ current.hostId # ""
       /\ current.hostName # ""
       /\ IsSome(current.location)

\* C32: the user copy is written first and gates the log copy: every record
\* of a daily log, of some userId and sessionId, has a record of the same
\* sessionId in the attendance mapping of the participant of that userId.
C32_LogCopyHasUserCopy ==
    \A date \in Dates : \A i \in 1..Len(logs[date]) :
        \E u \in UserKeys :
            /\ UserId(u) = logs[date][i].userId
            /\ \E j \in 1..Len(attendance[u]) :
                 attendance[u][j].sessionId = logs[date][i].sessionId

\* the status the stored attendance mapping of user u gives for session
\* sessionId: 0 not checked in, 1 checked in, 2 checked out (of the first
\* record of that session, the one Array.prototype.find returns)
C33_Status(u, sessionId) ==
    LET K == {i \in 1..Len(attendance[u]) : attendance[u][i].sessionId = sessionId}
    IN  IF K = {} THEN 0
        ELSE IF IsSome(attendance[u][FirstOf(K)].checkout) THEN 2 ELSE 1

\* on every device that holds the active session and has no submission under
\* way (its button is disabled meanwhile), the action offered follows the
\* status: Mark Attendance only with no record of the session, Check Out only
\* with checkoutEnabled and a record of the session without checkout
C33_OfferFollowsStatus ==
    \A d \in Devices :
        (current.active /\ dview[d].session = current /\ pending[d] = None)
        => /\ renderAttendanceStatus(d) = "CheckIn"
              => C33_Status(UserOf(d), current.createdAt) = 0
           /\ renderAttendanceStatus(d) = "CheckOut"
              => /\ dview[d].checkoutEnabled
                 /\ C33_Status(UserOf(d), current.createdAt) = 1

\* C33: for a fixed active session a participant's status only moves
\* forward, from not checked in to checked in to checked out, and the action
\* offered follows it; once the record has a checkout neither check-in nor
\* check-out is offered again for that session.
C33_StatusForward ==
    [][/\ (current.active /\ current' = current)
          => \A u \in UserKeys :
               C33_Status(u, current.createdAt)' >= C33_Status(u, current.createdAt)
       /\ C33_OfferFollowsStatus']_vars

(***************************************************************************)
(* The matrix after roster edits: any logs under the two dates, the admin  *)
(* editing the entry of u1 and opening the attendance matrix.              *)
(***************************************************************************)
NextEdit ==
    \/ \E name \in EditedNames, id \in EditedIds, ok \in BOOLEAN :
         handleSave("u1", name, id, ok)
    \/ fetchData

SpecEdit == InitLog /\ [][NextEdit]_vars

\* C34: attendance already recorded survives roster edits: a date on which
\* the matrix reported a user present before the admin saved a new name or
\* id for that user is still reported present for that user afterwards.
C34_PresenceSurvivesEdit ==
    [][(lastOp'.op = "handleSave" /\ lastOp'.outcome = "ok")
       => LET u == lastOp'.who
              before == attendanceMatrix(usersData, logsData)
              after == attendanceMatrix(usersData', logsData')
          IN  \A date \in DOMAIN logsData :
                before.records[usersData[u]["id"]][date]
                => after.records[usersData'[u]["id"]][date]]_vars

(***************************************************************************)
(* The dashboard's list against the admin creating and deleting cards.     *)
(***************************************************************************)
NextDashboard ==
    \/ \E n \in NewCardNames : handleCreateCard("a2", n)
    \/ \E k \in CardKeys : handleDeleteCard("a2", k)
    \/ onValueAdminCards
    \/ \E b \in batches, k \in CardKeys : getCard(b, k)
    \/ \E b \in batches : setCards(b)

SpecDashboard == Init /\ [][NextDashboard]_vars

\* C35: the list of cards converges to the latest index.  Once the latest
\* snapshot of the index has been delivered and every fetch batch has
\* finished, the list shown is the existing cards of that index: no batch
\* started for an older snapshot has overwritten it and no card that no
\* longer exists is listed.
C35_ListConverges ==
    (/\ indexSeen.no > 0
     /\ indexSeen.ids = adminCards
     /\ batches = {})
    => {cards[i].id : i \in 1..Len(cards)} = {k \in adminCards : cardData[k] # None}

=============================================================================
